---- MODULE Spec2Model ----
(***************************************************************************)
(* Model of the job-agent matching and deduplication pipeline:             *)
(*   - job_agent/pipeline.py   run_pipeline_for_user (web / scheduler)     *)
(*   - job_agent/main.py       run_pipeline, fetch_all_jobs (CLI)          *)
(*   - job_agent/storage/database.py   JobDatabase (CLI store)             *)
(*   - job_agent/models/seen_job.py, run_history.py (web store)            *)
(*   - job_agent/matching/matcher.py   score_and_filter_jobs               *)
(* Strings are sequences of one-character strings, so that strip() and     *)
(* lower() are computed and not assumed.  Scores are in thousandths.       *)
(***************************************************************************)
EXTENDS Integers, Sequences, FiniteSets, TLC

NULL == "NULL"
\* A timestamp column that is NULL (timestamps of the model start at 1).
NEVER == 0

\* ------------------------------------------------------------------ bounds
\* Number of pipeline invocations in one behaviour.
MaxRuns == 2

\* ------------------------------------------------------------- text helpers
\* str.lower() on one character of the alphabet used by the listings.
LowerChar(c) ==
    CASE c = "A" -> "a"
      [] c = "C" -> "c"
      [] c = "D" -> "d"
      [] c = "E" -> "e"
      [] c = "O" -> "o"
      [] c = "U" -> "u"
      [] c = "V" -> "v"
      [] OTHER -> c

Lower(s) == [i \in DOMAIN s |-> LowerChar(s[i])]

RECURSIVE LStrip(_)
LStrip(s) == IF s # <<>> /\ Head(s) = " " THEN LStrip(Tail(s)) ELSE s

RECURSIVE RStrip(_)
RStrip(s) == IF s # <<>> /\ s[Len(s)] = " " THEN RStrip(SubSeq(s, 1, Len(s) - 1)) ELSE s

Strip(s) == RStrip(LStrip(s))

\* ----------------------------------------------------------------- listings
\* Variant of job_id: the source takes part in the identity.
JobIdWithSource(job) ==
    Lower(Strip(job.title)) \o <<"|">> \o Lower(Strip(job.company)) \o <<"|">> \o Lower(Strip(job.url))
        \o <<"|", job.source>>

\* JobListing.job_id: sha256 of "title|company|url" after strip().lower().
\* The digest is modelled by its pre-image (no collisions of sha256 itself).
job_id(job) ==
    Lower(Strip(job.title)) \o <<"|">> \o Lower(Strip(job.company)) \o <<"|">> \o Lower(Strip(job.url))

\* The (title, company) key of the secondary dedup pass.
PairKey(job) == <<Lower(Strip(job.title)), Lower(Strip(job.company))>>

JobListing(t, c, u, s) ==
    [title |-> t, company |-> c, url |-> u, source |-> s, match_score |-> 0]

\* The postings the three providers can return.
J1 == JobListing(<<"D", "e", "v">>, <<"A", "c">>, <<"u", "1">>, "serpapi")
\* same posting as J1, other letter case and padding: same identity
J2 == JobListing(<<" ", "d", "E", "V">>, <<"A", "C", " ">>, <<"U", "1">>, "indeed")
\* same role exposed under another url: other identity, same (title, company)
J3 == JobListing(<<"D", "e", "v">>, <<"A", "c">>, <<"u", "2">>, "linkedin")
J4 == JobListing(<<"O", "p", "s">>, <<"A", "c">>, <<"u", "3">>, "serpapi")

Catalogue == {J1, J2, J3, J4}
JobIds == {job_id(j) : j \in Catalogue}

\* What one call of a provider can do: raise, or return a list of listings.
Raises == [raises |-> TRUE, jobs |-> <<>>]
Returns(jobs) == [raises |-> FALSE, jobs |-> jobs]
SerpapiOutcomes == {Raises, Returns(<<>>), Returns(<<J1>>), Returns(<<J1, J4>>)}
IndeedOutcomes == {Raises, Returns(<<>>), Returns(<<J2>>)}
LinkedinOutcomes == {Raises, Returns(<<>>), Returns(<<J3>>)}

\* main.fetch_all_jobs for one search title: each provider is called inside
\* its own try/except; a provider that raises contributes nothing.
SourceJobs(outcome) == IF outcome.raises THEN <<>> ELSE outcome.jobs

\* Variant of fetch_all_jobs: one try/except around the three providers, so
\* the first one that raises ends the title's iteration.
FetchAbortOnRaise(serp, indeed, linkedin) ==
    IF serp.raises THEN <<>>
    ELSE IF indeed.raises THEN serp.jobs
    ELSE IF linkedin.raises THEN serp.jobs \o indeed.jobs
    ELSE serp.jobs \o indeed.jobs \o linkedin.jobs

fetch_all_jobs(serp, indeed, linkedin) ==
    SourceJobs(serp) \o SourceJobs(indeed) \o SourceJobs(linkedin)

\* ------------------------------------------------------------------ config
\* config.MatchingConfig defaults, as they appear in build_app_config_for_user.
DefaultScoreThreshold == 300
DefaultAiPreFilter == 200

\* Python's `x or default` on a number column: a falsy x (0, 0.0) yields default.
OrDefault(x, default) == IF x = 0 THEN default ELSE x

\* Python's `x or ""` on a string column.
OrEmpty(x) == IF x = NULL THEN "" ELSE x

\* UserSettings rows a user can have stored (columns the pipeline reads).
UserSettings(sender, password, resend, recipient, threshold, use_ai, openai, pre) ==
    [sender_email |-> sender, sender_password |-> password, resend_api_key |-> resend,
     recipient_email |-> recipient, score_threshold |-> threshold,
     use_ai_matching |-> use_ai, openai_api_key |-> openai,
     ai_pre_filter_threshold |-> pre]

SettingsSmtp == UserSettings("me@x", "pw", "", "you@x", 300, FALSE, "", 200)
SettingsResend == UserSettings("me@x", "", "re_key", "you@x", 300, FALSE, "", 200)
SettingsNoSender == UserSettings("", "", "", "you@x", 300, FALSE, "", 200)
SettingsRows == {SettingsSmtp, SettingsResend, SettingsNoSender}

\* pipeline.build_app_config_for_user
build_app_config_for_user(settings) ==
    [email |-> [sender_email |-> OrEmpty(settings.sender_email),
                sender_password |-> OrEmpty(settings.sender_password),
                recipient_email |-> OrEmpty(settings.recipient_email)],
     matching |-> [score_threshold |-> OrDefault(settings.score_threshold, DefaultScoreThreshold),
                   use_ai_matching |-> settings.use_ai_matching,
                   ai_pre_filter_threshold |->
                       OrDefault(settings.ai_pre_filter_threshold, DefaultAiPreFilter)],
     api_keys |-> [openai_api_key |-> OrEmpty(settings.openai_api_key)],
     profile |-> [resume_path |-> "", linkedin_url |-> ""]]

\* AppConfig values the CLI can load from config.yaml (config.load_config).
AppConfig(sender, password, recipient, resume) ==
    [email |-> [sender_email |-> sender, sender_password |-> password,
                recipient_email |-> recipient],
     matching |-> [score_threshold |-> DefaultScoreThreshold, use_ai_matching |-> FALSE,
                   ai_pre_filter_threshold |-> DefaultAiPreFilter],
     api_keys |-> [openai_api_key |-> ""],
     profile |-> [resume_path |-> resume, linkedin_url |-> ""]]

CliConfigs == {AppConfig("me@x", "pw", "you@x", "cv.pdf"),
               AppConfig("me@x", "pw", "you@x", "")}

\* ----------------------------------------------------------------- scoring
\* keyword_matcher.score_job is a pure function of the stored profile and the
\* listing text.  Against the profile of the model (target title "Dev") the
\* listings titled Dev score 0.5 and the one titled Ops scores 0.1.
keyword_score(job) == IF Lower(Strip(job.title)) = <<"d", "e", "v">> THEN 500 ELSE 100

KeywordScores(jobs) == [i \in DOMAIN jobs |-> keyword_score(jobs[i])]

\* What the AI call can do for one listing: raise, or return a score.
AiOutcomes == {[raises |-> TRUE, score |-> 0], [raises |-> FALSE, score |-> 900]}

\* The AI outcomes to consider for a list of listings: the call is made only
\* when AI matching is enabled and a key is present.
AiInputs(jobs, config) ==
    IF config.matching.use_ai_matching /\ config.api_keys.openai_api_key # ""
    THEN [DOMAIN jobs -> AiOutcomes]
    ELSE {[i \in DOMAIN jobs |-> [raises |-> TRUE, score |-> 0]]}

\* ------------------------------------------- keyword_matcher.score_job
\* A sub-score is a fraction n/d; the total is kept in thousandths.
Frac(n, d) == [n |-> n, d |-> d]
FracGreater(a, b) == a.n * b.d > b.n * a.d
Max(a, b) == IF a >= b THEN a ELSE b

\* min(score, 1.0)
Min1(f) == IF f.n > f.d THEN Frac(1, 1) ELSE f

WEIGHT_SKILLS == 400
WEIGHT_TITLE == 300
WEIGHT_KEYWORDS == 200
WEIGHT_EXPERIENCE == 100

\* A candidate profile and the text of a listing, as the extraction helpers of
\* utils.text_processing see them: the skills and keywords found in the text,
\* the normalized title as a list of words, the years of experience asked for.
ProfileData(skills, job_titles, keywords, experience_years) ==
    [skills |-> skills, job_titles |-> job_titles, keywords |-> keywords,
     experience_years |-> experience_years]

\* lines 31-41: share of the profile's skills found in the listing.
skills_score(profile, job) ==
    IF profile.skills # {} /\ job.skills # {}
    THEN Min1(Frac(Cardinality(profile.skills \cap job.skills),
                   Max(Cardinality(profile.skills), 1)))
    ELSE Frac(0, 1)

Words(title) == {title[i] : i \in DOMAIN title}

\* text_processing.title_similarity on normalized titles.
title_similarity(t1, t2) ==
    IF t1 = t2 THEN Frac(1, 1)
    ELSE IF Words(t1) = {} \/ Words(t2) = {} THEN Frac(0, 1)
    ELSE Frac(Cardinality(Words(t1) \cap Words(t2)),
              Max(Cardinality(Words(t1)), Cardinality(Words(t2))))

\* lines 44-52: the best similarity over the profile's titles, starting at 0.
RECURSIVE title_score(_, _)
title_score(job_titles, job) ==
    IF job_titles = <<>> THEN Frac(0, 1)
    ELSE LET best == title_score(SubSeq(job_titles, 1, Len(job_titles) - 1), job)
             sim == title_similarity(job_titles[Len(job_titles)], job.title_words)
         IN  IF FracGreater(sim, best) THEN sim ELSE best

\* lines 58-66: share of the profile's keywords among the listing's keywords.
keywords_score(profile, job) ==
    IF profile.keywords # {} /\ job.keywords # {}
    THEN Min1(Frac(Cardinality(profile.keywords \cap job.keywords),
                   Max(Cardinality(profile.keywords), 1)))
    ELSE Frac(0, 1)

Abs(x) == IF x < 0 THEN 0 - x ELSE x

\* lines 69-83: 1.0 within two years, 0.5 within five or when the listing asks
\* for nothing, 0.2 beyond, 0.0 for a profile without experience.
experience_score(profile, job) ==
    IF profile.experience_years > 0
    THEN IF job.has_years
         THEN IF Abs(profile.experience_years - job.years) <= 2 THEN Frac(1, 1)
              ELSE IF Abs(profile.experience_years - job.years) <= 5 THEN Frac(1, 2)
              ELSE Frac(1, 5)
         ELSE Frac(1, 2)
    ELSE Frac(0, 1)

\* round(x, 3) of the exact value n/d thousandths (ties to even).
Round(n, d) ==
    LET q == n \div d
        rem == n % d
    IN  IF 2 * rem > d THEN q + 1
        ELSE IF 2 * rem = d /\ q % 2 = 1 THEN q + 1
        ELSE q

\* lines 28-93: the reasons the score is reported with.
score_reason(profile, job) ==
    LET reasons ==
            (IF profile.skills # {} /\ job.skills # {} /\ profile.skills \cap job.skills # {}
             THEN <<"Skills">> ELSE <<>>)
            \o (IF FracGreater(title_score(profile.job_titles, job), Frac(3, 10))
                THEN <<"Title match">> ELSE <<>>)
            \o (IF profile.experience_years > 0 /\ job.has_years
                   /\ Abs(profile.experience_years - job.years) <= 2
                THEN <<"Experience">> ELSE <<>>)
    IN  IF reasons = <<>> THEN <<"Low keyword overlap">> ELSE reasons

\* keyword_matcher.score_job: (round(total, 3), reason).
score_job(profile, job) ==
    LET s == skills_score(profile, job)
        t == title_score(profile.job_titles, job)
        k == keywords_score(profile, job)
        e == experience_score(profile, job)
        d == s.d * t.d * k.d * e.d
        n == WEIGHT_SKILLS * s.n * t.d * k.d * e.d + WEIGHT_TITLE * t.n * s.d * k.d * e.d
               + WEIGHT_KEYWORDS * k.n * s.d * t.d * e.d + WEIGHT_EXPERIENCE * e.n * s.d * t.d * k.d
    IN  [score |-> Round(n, d), reason |-> score_reason(profile, job)]

\* ---------------------------------------- ai_matcher.score_job_with_ai
Min(a, b) == IF a <= b THEN a ELSE b

\* What the chat completion call can give back: an API error, text that is
\* not JSON, a JSON array, or a JSON object whose "score" is missing, null, a
\* word, true, NaN or a number (thousandths); "reason" may be missing.
AiResponse(kind, score_kind, x, has_reason) ==
    [kind |-> kind, score_kind |-> score_kind, x |-> x, has_reason |-> has_reason]

AiResponses ==
    {AiResponse("api_error", "missing", 0, FALSE),
     AiResponse("text", "missing", 0, FALSE),
     AiResponse("array", "missing", 0, FALSE),
     AiResponse("object", "missing", 0, TRUE),
     AiResponse("object", "null", 0, TRUE),
     AiResponse("object", "word", 0, TRUE),
     AiResponse("object", "true", 0, TRUE),
     AiResponse("object", "nan", 0, TRUE),
     AiResponse("object", "number", 0 - 500, TRUE),
     AiResponse("object", "number", 300, TRUE),
     AiResponse("object", "number", 300, FALSE),
     AiResponse("object", "number", 1500, TRUE)}

\* Variant of Clamp: the score is taken as returned.
ClampNone(nan, x) == x

\* line 69: max(0.0, min(1.0, score)); min(1.0, nan) is 1.0 in Python.
Clamp(nan, x) == IF nan THEN 1000 ELSE Max(0, Min(1000, x))

\* ai_matcher.score_job_with_ai lines 49-83: json.loads raises on text,
\* result.get raises on an array, float() raises on null and on a word;
\* a missing score reads as the default 0.0 and true as 1.0.
score_job_with_ai(resp) ==
    IF resp.kind # "object" \/ resp.score_kind \in {"null", "word"}
    THEN [raises |-> TRUE, score |-> 0, reason |-> <<>>]
    ELSE LET x == CASE resp.score_kind = "missing" -> 0
                    [] resp.score_kind = "true" -> 1000
                    [] OTHER -> resp.x
         IN  [raises |-> FALSE, score |-> Clamp(resp.score_kind = "nan", x),
              reason |-> <<"[AI]", IF resp.has_reason THEN "fit" ELSE "AI scored">>]

\* Variant of CallsAi: the AI scorer runs only above the pre-filter threshold.
CallsAiAbove(kw, use_ai, ai_pre_filter) == use_ai /\ kw > ai_pre_filter

\* matcher.score_and_filter_jobs line 35: is the AI scorer tried for a listing?
CallsAi(kw, use_ai, ai_pre_filter) == use_ai /\ kw >= ai_pre_filter

\* matcher.score_and_filter_jobs, lines 31-49: the score one listing ends with.
FinalScore(kw, ai, use_ai, ai_pre_filter) ==
    IF CallsAi(kw, use_ai, ai_pre_filter)
    THEN IF ai.raises THEN kw ELSE ai.score
    ELSE kw

\* matcher.score_and_filter_jobs, lines 31-49: the reason it ends with.
FinalReason(kw, kw_reason, ai, use_ai, ai_pre_filter) ==
    IF CallsAi(kw, use_ai, ai_pre_filter)
    THEN IF ai.raises THEN kw_reason ELSE ai.reason
    ELSE kw_reason

\* The listings with match_score assigned (the loop mutates them in place).
ScoreJobs(jobs, kw, ai, config) ==
    LET use_ai == config.matching.use_ai_matching /\ config.api_keys.openai_api_key # ""
    IN  [i \in DOMAIN jobs |->
            [jobs[i] EXCEPT !.match_score =
                FinalScore(kw[i], ai[i], use_ai, config.matching.ai_pre_filter_threshold)]]

\* Variant of SortByScoreDesc: a listing is put before the ones of equal score.
RECURSIVE SortUnstable(_)
SortUnstable(jobs) ==
    IF jobs = <<>> THEN <<>>
    ELSE LET rest == SortUnstable(SubSeq(jobs, 1, Len(jobs) - 1))
             x == jobs[Len(jobs)]
             k == Cardinality({i \in DOMAIN rest : rest[i].match_score > x.match_score})
         IN  SubSeq(rest, 1, k) \o <<x>> \o SubSeq(rest, k + 1, Len(rest))

\* list.sort(key=match_score, reverse=True): stable, descending.
RECURSIVE SortByScoreDesc(_)
SortByScoreDesc(jobs) ==
    IF jobs = <<>> THEN <<>>
    ELSE LET rest == SortByScoreDesc(SubSeq(jobs, 1, Len(jobs) - 1))
             x == jobs[Len(jobs)]
             \* x goes after every element whose score is >= its own
             k == Cardinality({i \in DOMAIN rest : rest[i].match_score >= x.match_score})
         IN  SubSeq(rest, 1, k) \o <<x>> \o SubSeq(rest, k + 1, Len(rest))

\* matcher.score_and_filter_jobs: the returned list.
score_and_filter_jobs(jobs, kw, ai, config) ==
    LET scored == ScoreJobs(jobs, kw, ai, config)
    IN  SortByScoreDesc(SelectSeq(scored, LAMBDA j : j.match_score >= config.matching.score_threshold))

\* pipeline.run_pipeline_for_user lines 164-172: keep the first listing of each
\* normalized (title, company) pair.
RECURSIVE UniqueMatched(_)
UniqueMatched(jobs) ==
    IF jobs = <<>> THEN <<>>
    ELSE LET rest == UniqueMatched(SubSeq(jobs, 1, Len(jobs) - 1))
             x == jobs[Len(jobs)]
         IN  IF \E i \in DOMAIN rest : PairKey(rest[i]) = PairKey(x) THEN rest ELSE Append(rest, x)

JobIdsOf(jobs) == {job_id(jobs[i]) : i \in DOMAIN jobs}

\* ------------------------------------------------------------------- state
Users == {1, 2}
Runs == 1 .. MaxRuns

VARIABLES
    entry,           \* which entry point this deployment uses: "web" or "cli"
    pc,              \* pc[r]: where invocation r of the orchestrator stands
    run,             \* run[r]: the local variables of invocation r
    tx,              \* tx[r]: the SQLAlchemy session of invocation r (web)
    seen_jobs_v2,    \* committed rows of table seen_jobs_v2 (web)
    run_history_v2,  \* committed rows of table run_history_v2 (web)
    seen_jobs,       \* rows of table seen_jobs (CLI, sqlite)
    run_history,     \* rows of table run_history (CLI, sqlite)
    call             \* locals of a fetch_all_jobs / score_and_filter_jobs call
                     \* followed statement by statement (NoCall in a pipeline run)

vars == <<entry, pc, run, tx, seen_jobs_v2, run_history_v2, seen_jobs, run_history, call>>

\* Locals of an invocation before it starts.  `after` is the set of
\* invocations that had ended when this one began, `loaded` says that profile
\* and configuration were loaded; fetched, scored, sends, mailed and notified
\* record what the invocation did to its collaborators.
RunLocals ==
    [after |-> {}, loaded |-> FALSE,
     user_id |-> 0, config |-> AppConfig("", "", "", ""), resend_key |-> "", dry_run |-> FALSE,
     all_jobs |-> <<>>, new_jobs |-> <<>>, matched_jobs |-> <<>>,
     email_sent |-> FALSE, email_error |-> NULL, error |-> NULL,
     fetched |-> FALSE, scored |-> FALSE, sends |-> 0, mailed |-> {}, notified |-> {}]

\* A session with nothing pending.
Session == [active |-> TRUE, new |-> <<>>, sent |-> {}, history |-> <<>>]

\* No function call is being followed.
NoCall == [fn |-> "none"]

Init ==
    /\ entry \in {"web", "cli"}
    /\ pc = [r \in Runs |-> "idle"]
    /\ run = [r \in Runs |-> RunLocals]
    /\ tx = [r \in Runs |-> Session]
    /\ seen_jobs_v2 = <<>>
    /\ run_history_v2 = <<>>
    /\ seen_jobs = <<>>
    /\ run_history = <<>>
    /\ call = NoCall

\* Invocations are numbered in the order they start; the number of an
\* invocation also serves as the time it reads from the clock.
MayStart(r) == pc[r] = "idle" /\ (IF r = 1 THEN TRUE ELSE pc[r - 1] # "idle")

\* The locals of an invocation that begins now.
Begun == [RunLocals EXCEPT !.after = {r2 \in Runs : pc[r2] = "done"}]

\* User ids are interchangeable: the first invocation is for user 1, and a
\* later one is for a user already served or for the next user id.
UsersFor(r) == {u \in Users : u = 1 \/ \E r2 \in 1 .. (r - 1) : run[r2].user_id >= u - 1}

\* ------------------------------------------------------- web store (ORM)
\* models.seen_job.SeenJob as built by run_pipeline_for_user lines 144-161.
SeenJob(user_id, job, now) ==
    [user_id |-> user_id, job_id |-> job_id(job), title |-> job.title,
     company |-> job.company, url |-> job.url, source |-> job.source,
     match_score |-> job.match_score, first_seen_at |-> now, last_seen_at |-> now,
     sent_at |-> NEVER]

\* Variant of RunHistory: the error message is not stored.
RunHistoryNoError(r, user_id, jobs_fetched, new_jobs_found, jobs_matched, email_sent, error_message) ==
    [run |-> r, user_id |-> user_id, jobs_fetched |-> jobs_fetched,
     new_jobs_found |-> new_jobs_found, jobs_matched |-> jobs_matched,
     email_sent |-> email_sent, error_message |-> NULL]

\* models.run_history.RunHistory as built by pipeline._record_run; `run` stands
\* for the row's run_at / primary key and ties the row to its invocation.
RunHistory(r, user_id, jobs_fetched, new_jobs_found, jobs_matched, email_sent, error_message) ==
    [run |-> r, user_id |-> user_id, jobs_fetched |-> jobs_fetched,
     new_jobs_found |-> new_jobs_found, jobs_matched |-> jobs_matched,
     email_sent |-> email_sent, error_message |-> error_message]

\* Variant of ViolatesUqUserJob: the table has no unique constraint.
NoUqUserJob(table, rows) == FALSE

\* UniqueConstraint("user_id", "job_id", name="uq_user_job"): would inserting
\* `rows` next to the committed `table` break it?
ViolatesUqUserJob(table, rows) ==
    \/ \E i \in DOMAIN rows : \E k \in DOMAIN table :
          table[k].user_id = rows[i].user_id /\ table[k].job_id = rows[i].job_id
    \/ \E i, k \in DOMAIN rows :
          i # k /\ rows[i].user_id = rows[k].user_id /\ rows[i].job_id = rows[k].job_id

\* Variant of WaitsForRow: the INSERT never waits for another session.
NeverWaits(r, rows) == FALSE

\* Another session holds an uncommitted row with the same key: the INSERT
\* waits for that session to end.
WaitsForRow(r, rows) ==
    \E r2 \in Runs \ {r} : \E i \in DOMAIN rows : \E k \in DOMAIN tx[r2].new :
        tx[r2].new[k].user_id = rows[i].user_id /\ tx[r2].new[k].job_id = rows[i].job_id

\* Variant of MarkSent: the UPDATE lacks the user_id filter.
MarkSentAnyUser(table, user_id, ids, now) ==
    [k \in DOMAIN table |->
        IF table[k].job_id \in ids THEN [table[k] EXCEPT !.sent_at = now] ELSE table[k]]

\* pipeline lines 201-204: UPDATE seen_jobs_v2 SET sent_at = now
\* WHERE user_id = :u AND job_id IN (:ids)
MarkSent(table, user_id, ids, now) ==
    [k \in DOMAIN table |->
        IF table[k].user_id = user_id /\ table[k].job_id \in ids
        THEN [table[k] EXCEPT !.sent_at = now] ELSE table[k]]

\* Session.commit(): what the committed seen_jobs_v2 becomes.
CommitSeen(table, session, user_id, now) ==
    MarkSent(table \o session.new, user_id, session.sent, now)

\* pipeline lines 220-226: the except branch of run_pipeline_for_user.  The
\* record is added and committed with whatever the session still holds; a
\* session whose flush failed refuses the commit (PendingRollbackError) and
\* the inner except rolls everything back.
WebExcept(r, loc, session, message) ==
    LET rec == RunHistory(r, loc.user_id, 0, 0, 0, FALSE, message)
    IN  /\ run' = [run EXCEPT ![r] = [loc EXCEPT !.error = message]]
        /\ pc' = [pc EXCEPT ![r] = "done"]
        /\ tx' = [tx EXCEPT ![r] = Session]
        /\ IF session.active
           THEN /\ seen_jobs_v2' = CommitSeen(seen_jobs_v2, session, loc.user_id, r)
                /\ run_history_v2' = run_history_v2 \o session.history \o <<rec>>
           ELSE UNCHANGED <<seen_jobs_v2, run_history_v2>>

\* ------------------------------------------- pipeline.run_pipeline_for_user
\* lines 100-107: profile or settings row missing: log and return.
WebBeginMissing(r) ==
    /\ entry = "web" /\ MayStart(r)
    /\ \E u \in UsersFor(r), profile_row \in BOOLEAN, settings \in BOOLEAN :
        /\ ~profile_row \/ ~settings
        /\ run' = [run EXCEPT ![r] = [Begun EXCEPT !.user_id = u]]
        /\ pc' = [pc EXCEPT ![r] = "done"]
    /\ UNCHANGED <<call, entry, tx, seen_jobs_v2, run_history_v2, seen_jobs, run_history>>

\* lines 109-110: to_profile_data raises on the stored profile.
WebBeginProfileError(r) ==
    /\ entry = "web" /\ MayStart(r)
    /\ \E u \in UsersFor(r), settings \in SettingsRows :
        WebExcept(r, [Begun EXCEPT !.user_id = u,
                                       !.config = build_app_config_for_user(settings),
                                       !.resend_key = OrEmpty(settings.resend_api_key)],
                  tx[r], "ProfileError")
    /\ UNCHANGED <<call, entry, seen_jobs, run_history>>

\* lines 100-128: load profile and settings, build the config, fetch.
WebBegin(r) ==
    /\ entry = "web" /\ MayStart(r)
    /\ \E u \in UsersFor(r), settings \in SettingsRows,
          serp \in SerpapiOutcomes, indeed \in IndeedOutcomes, linkedin \in LinkedinOutcomes :
        LET all_jobs == fetch_all_jobs(serp, indeed, linkedin)
        IN  /\ run' = [run EXCEPT ![r] =
                          [Begun EXCEPT !.user_id = u, !.loaded = TRUE,
                                            !.config = build_app_config_for_user(settings),
                                            !.resend_key = OrEmpty(settings.resend_api_key),
                                            !.fetched = TRUE,
                                            !.all_jobs = all_jobs]]
            /\ pc' = [pc EXCEPT ![r] = IF all_jobs = <<>> THEN "notify" ELSE "dedup"]
    /\ UNCHANGED <<call, entry, tx, seen_jobs_v2, run_history_v2, seen_jobs, run_history>>

\* Variant of FilterNew: only rows already notified count as seen.
FilterNewUnsent(all_jobs, table, user_id) ==
    LET seen_ids == {table[k].job_id : k \in {i \in DOMAIN table :
                        table[i].user_id = user_id /\ table[i].sent_at # NEVER}}
    IN  SelectSeq(all_jobs, LAMBDA j : job_id(j) \notin seen_ids)

\* lines 130-134: the listings whose job_id is not among the user's seen rows.
FilterNew(all_jobs, table, user_id) ==
    LET seen_ids == {table[k].job_id : k \in {i \in DOMAIN table : table[i].user_id = user_id}}
    IN  SelectSeq(all_jobs, LAMBDA j : job_id(j) \notin seen_ids)

\* lines 129-137
WebDedup(r) ==
    /\ entry = "web" /\ pc[r] = "dedup"
    /\ LET new_jobs == FilterNew(run[r].all_jobs, seen_jobs_v2, run[r].user_id)
       IN  /\ run' = [run EXCEPT ![r].new_jobs = new_jobs]
           /\ pc' = [pc EXCEPT ![r] = IF new_jobs = <<>> THEN "notify" ELSE "score"]
    /\ UNCHANGED <<call, entry, tx, seen_jobs_v2, run_history_v2, seen_jobs, run_history>>

\* Variant of NewSeenRows: only the listings that reached the default threshold
\* are added to the session.
MatchedSeenRows(user_id, jobs, now) ==
    LET kept == SelectSeq(jobs, LAMBDA j : j.match_score >= DefaultScoreThreshold)
    IN  [i \in DOMAIN kept |-> SeenJob(user_id, kept[i], now)]

\* The rows lines 143-161 add to the session.
NewSeenRows(user_id, jobs, now) == [i \in DOMAIN jobs |-> SeenJob(user_id, jobs[i], now)]

\* line 139 raises: nothing was added to the session yet.
WebScoreError(r) ==
    /\ entry = "web" /\ pc[r] = "score"
    /\ WebExcept(r, [run[r] EXCEPT !.scored = TRUE], tx[r], "ScoringError")
    /\ UNCHANGED <<call, entry, seen_jobs, run_history>>

\* lines 138-162 when db.flush() raises IntegrityError on uq_user_job.
WebFlushError(r) ==
    /\ entry = "web" /\ pc[r] = "score"
    /\ \E ai \in AiInputs(run[r].new_jobs, run[r].config) :
        LET loc == run[r]
            kw == KeywordScores(loc.new_jobs)
            scored == ScoreJobs(loc.new_jobs, kw, ai, loc.config)
            matched == score_and_filter_jobs(loc.new_jobs, kw, ai, loc.config)
            rows == NewSeenRows(loc.user_id, scored, r)
        IN  /\ ~WaitsForRow(r, rows)
            /\ ViolatesUqUserJob(seen_jobs_v2, rows)
            /\ WebExcept(r, [loc EXCEPT !.scored = TRUE, !.new_jobs = scored,
                                        !.matched_jobs = matched],
                         [tx[r] EXCEPT !.active = FALSE], "IntegrityError")
    /\ UNCHANGED <<call, entry, seen_jobs, run_history>>

\* lines 138-172: score, add every new listing to the session, flush, then
\* collapse the matched list by (title, company).
WebScore(r) ==
    /\ entry = "web" /\ pc[r] = "score"
    /\ \E ai \in AiInputs(run[r].new_jobs, run[r].config) :
        LET loc == run[r]
            kw == KeywordScores(loc.new_jobs)
            scored == ScoreJobs(loc.new_jobs, kw, ai, loc.config)
            matched == score_and_filter_jobs(loc.new_jobs, kw, ai, loc.config)
            rows == NewSeenRows(loc.user_id, scored, r)
        IN  /\ ~WaitsForRow(r, rows)
            /\ ~ViolatesUqUserJob(seen_jobs_v2, rows)
            /\ tx' = [tx EXCEPT ![r].new = rows]
            /\ run' = [run EXCEPT ![r] = [loc EXCEPT !.scored = TRUE, !.new_jobs = scored,
                                                     !.matched_jobs = UniqueMatched(matched)]]
            /\ pc' = [pc EXCEPT ![r] = "notify"]
    /\ UNCHANGED <<call, entry, seen_jobs_v2, run_history_v2, seen_jobs, run_history>>

\* Variant of EmailConfigError: a Resend key does not stand in for the password.
EmailConfigErrorNoResend(config, resend_key) ==
    IF config.email.sender_email = "" THEN "Sender email not configured"
    ELSE IF config.email.sender_password = ""
         THEN "Sender password not configured (or add a Resend API key)"
    ELSE IF config.email.recipient_email = "" THEN "Recipient email not configured"
    ELSE NULL

\* lines 177-186: why no email can be sent with this configuration, or NULL.
EmailConfigError(config, resend_key) ==
    IF config.email.sender_email = "" THEN "Sender email not configured"
    ELSE IF resend_key = "" /\ config.email.sender_password = ""
         THEN "Sender password not configured (or add a Resend API key)"
    ELSE IF config.email.recipient_email = "" THEN "Recipient email not configured"
    ELSE NULL

\* lines 178-186: the transport is not configured; nothing is sent.
WebNotifySkip(r) ==
    /\ entry = "web" /\ pc[r] = "notify"
    /\ EmailConfigError(run[r].config, run[r].resend_key) # NULL
    /\ run' = [run EXCEPT ![r].email_error = EmailConfigError(run[r].config, run[r].resend_key)]
    /\ pc' = [pc EXCEPT ![r] = "record"]
    /\ UNCHANGED <<call, entry, tx, seen_jobs_v2, run_history_v2, seen_jobs, run_history>>

\* line 189 raises while rendering the matched listings.
WebRenderError(r) ==
    /\ entry = "web" /\ pc[r] = "notify"
    /\ EmailConfigError(run[r].config, run[r].resend_key) = NULL
    /\ run[r].matched_jobs # <<>>
    /\ WebExcept(r, run[r], tx[r], "RenderError")
    /\ UNCHANGED <<call, entry, seen_jobs, run_history>>

\* lines 187-204: render the matches (or the no-matches summary), send one
\* email, and on success mark the matched rows sent.
WebNotify(r) ==
    /\ entry = "web" /\ pc[r] = "notify"
    /\ EmailConfigError(run[r].config, run[r].resend_key) = NULL
    /\ \E delivered \in BOOLEAN :
        LET loc == run[r]
            matched_ids == JobIdsOf(loc.matched_jobs)
        IN  /\ run' = [run EXCEPT ![r] =
                          [loc EXCEPT !.sends = loc.sends + 1,
                                      !.mailed = matched_ids,
                                      !.email_sent = delivered,
                                      !.email_error = IF delivered THEN NULL ELSE "Email error",
                                      !.notified = IF delivered THEN matched_ids ELSE {}]]
            /\ tx' = [tx EXCEPT ![r].sent = IF delivered THEN matched_ids ELSE {}]
    /\ pc' = [pc EXCEPT ![r] = "record"]
    /\ UNCHANGED <<call, entry, seen_jobs_v2, run_history_v2, seen_jobs, run_history>>

\* lines 206-214: _record_run and db.commit().
WebRecord(r) ==
    /\ entry = "web" /\ pc[r] = "record"
    /\ LET loc == run[r]
           rec == RunHistory(r, loc.user_id, Len(loc.all_jobs), Len(loc.new_jobs),
                             Len(loc.matched_jobs), loc.email_sent, loc.email_error)
       IN  /\ seen_jobs_v2' = CommitSeen(seen_jobs_v2, tx[r], loc.user_id, r)
           /\ run_history_v2' = run_history_v2 \o tx[r].history \o <<rec>>
    /\ tx' = [tx EXCEPT ![r] = Session]
    /\ pc' = [pc EXCEPT ![r] = "done"]
    /\ UNCHANGED <<call, entry, run, seen_jobs, run_history>>

WebNext ==
    \E r \in Runs :
        \/ WebBeginMissing(r)
        \/ WebBeginProfileError(r)
        \/ WebBegin(r)
        \/ WebDedup(r)
        \/ WebScoreError(r)
        \/ WebFlushError(r)
        \/ WebScore(r)
        \/ WebNotifySkip(r)
        \/ WebRenderError(r)
        \/ WebNotify(r)
        \/ WebRecord(r)

\* ------------------------------------------- storage.database.JobDatabase
\* One row of table seen_jobs as add_job inserts it (lines 88-96).
SeenRow(job, now) ==
    [job_id |-> job_id(job), title |-> job.title, company |-> job.company,
     url |-> job.url, source |-> job.source, match_score |-> job.match_score,
     first_seen_at |-> now, last_seen_at |-> now, sent_at |-> NEVER]

\* JobDatabase.is_job_seen
is_job_seen(table, id) == \E k \in DOMAIN table : table[k].job_id = id

\* Variant of filter_new_jobs: a listing counts as seen only once it has been
\* sent.
FilterNewJobsUnsent(table, jobs) ==
    SelectSeq(jobs, LAMBDA j : ~\E k \in DOMAIN table :
                                    table[k].job_id = job_id(j) /\ table[k].sent_at # NEVER)

\* JobDatabase.filter_new_jobs: the list it returns.
filter_new_jobs(table, jobs) == SelectSeq(jobs, LAMBDA j : ~is_job_seen(table, job_id(j)))

\* JobDatabase.filter_new_jobs: the table after it (last_seen_at of the known
\* listings is set to now).
TouchSeen(table, jobs, now) ==
    [k \in DOMAIN table |->
        IF table[k].job_id \in JobIdsOf(jobs)
        THEN [table[k] EXCEPT !.last_seen_at = now] ELSE table[k]]

\* Variant of add_job: INSERT OR REPLACE, the existing row is written anew.
AddJobReplace(table, job, now) ==
    Append(SelectSeq(table, LAMBDA row : row.job_id # job_id(job)), SeenRow(job, now))

\* JobDatabase.add_job: INSERT OR IGNORE under PRIMARY KEY job_id.
add_job(table, job, now) ==
    IF is_job_seen(table, job_id(job)) THEN table ELSE Append(table, SeenRow(job, now))

\* main.run_pipeline lines 182-183: add_job for every new listing, in order.
RECURSIVE AddJobs(_, _, _)
AddJobs(table, jobs, now) ==
    IF jobs = <<>> THEN table
    ELSE AddJobs(add_job(table, Head(jobs), now), Tail(jobs), now)

\* JobDatabase.mark_jobs_sent
mark_jobs_sent(table, ids, now) ==
    [k \in DOMAIN table |->
        IF table[k].job_id \in ids THEN [table[k] EXCEPT !.sent_at = now] ELSE table[k]]

\* Variant of RunRow: the new and the matched count are stored in each
\* other's column.
RunRowCountsSwapped(r, jobs_fetched, new_jobs_found, jobs_matched, email_sent, error_message) ==
    [run |-> r, jobs_fetched |-> jobs_fetched, new_jobs_found |-> jobs_matched,
     jobs_matched |-> new_jobs_found, email_sent |-> email_sent,
     error_message |-> error_message]

\* JobDatabase.record_run: the row it inserts; `run` stands for run_at / id.
RunRow(r, jobs_fetched, new_jobs_found, jobs_matched, email_sent, error_message) ==
    [run |-> r, jobs_fetched |-> jobs_fetched, new_jobs_found |-> new_jobs_found,
     jobs_matched |-> jobs_matched, email_sent |-> email_sent,
     error_message |-> error_message]

\* email_sender.send_email: False without credentials or recipient, otherwise
\* what the SMTP exchange gives (every exception is turned into False).
send_email(config, smtp_ok) ==
    IF config.email.sender_email = "" \/ config.email.sender_password = "" THEN FALSE
    ELSE IF config.email.recipient_email = "" THEN FALSE
    ELSE smtp_ok

\* main.load_profile raises ValueError when no profile source is configured.
ProfileSourceMissing(config) ==
    config.profile.resume_path = "" /\ config.profile.linkedin_url = ""

\* ------------------------------------------------------ main.run_pipeline
\* One CLI process runs at a time.
CliMayStart(r) == MayStart(r) /\ \A r2 \in Runs : pc[r2] \in {"idle", "done", "crashed"}

\* lines 224-228: the except branch of run_pipeline.
CliExcept(r, loc, message) ==
    /\ run' = [run EXCEPT ![r] = [loc EXCEPT !.error = message]]
    /\ run_history' = Append(run_history, RunRow(r, 0, 0, 0, FALSE, message))
    /\ pc' = [pc EXCEPT ![r] = "done"]

\* lines 140-144 and 224-228: load_profile raises.
CliBeginProfileError(r) ==
    /\ entry = "cli" /\ CliMayStart(r)
    /\ \E config \in CliConfigs, dry_run \in BOOLEAN, parse_fails \in BOOLEAN :
        /\ ProfileSourceMissing(config) \/ parse_fails
        /\ CliExcept(r, [Begun EXCEPT !.config = config, !.dry_run = dry_run], "ValueError")
    /\ UNCHANGED <<call, entry, tx, seen_jobs_v2, run_history_v2, seen_jobs>>

\* lines 140-160: load the profile, fetch; nothing fetched is recorded at once.
CliBegin(r) ==
    /\ entry = "cli" /\ CliMayStart(r)
    /\ \E config \in CliConfigs, dry_run \in BOOLEAN,
          serp \in SerpapiOutcomes, indeed \in IndeedOutcomes, linkedin \in LinkedinOutcomes :
        LET all_jobs == fetch_all_jobs(serp, indeed, linkedin)
        IN  /\ ~ProfileSourceMissing(config)
            /\ run' = [run EXCEPT ![r] = [Begun EXCEPT !.config = config,
                                                            !.loaded = TRUE,
                                                            !.dry_run = dry_run,
                                                            !.fetched = TRUE,
                                                            !.all_jobs = all_jobs]]
            /\ IF all_jobs = <<>>
               THEN /\ run_history' = Append(run_history, RunRow(r, 0, 0, 0, FALSE, NULL))
                    /\ pc' = [pc EXCEPT ![r] = "done"]
               ELSE /\ UNCHANGED run_history
                    /\ pc' = [pc EXCEPT ![r] = "dedup"]
    /\ UNCHANGED <<call, entry, tx, seen_jobs_v2, run_history_v2, seen_jobs>>

\* lines 162-174: filter_new_jobs; nothing new is recorded at once.
CliDedup(r) ==
    /\ entry = "cli" /\ pc[r] = "dedup"
    /\ LET loc == run[r]
           new_jobs == filter_new_jobs(seen_jobs, loc.all_jobs)
       IN  /\ seen_jobs' = TouchSeen(seen_jobs, loc.all_jobs, r)
           /\ run' = [run EXCEPT ![r].new_jobs = new_jobs]
           /\ IF new_jobs = <<>>
              THEN /\ run_history' = Append(run_history,
                                            RunRow(r, Len(loc.all_jobs), 0, 0, FALSE, NULL))
                   /\ pc' = [pc EXCEPT ![r] = "done"]
              ELSE /\ UNCHANGED run_history
                   /\ pc' = [pc EXCEPT ![r] = "score"]
    /\ UNCHANGED <<call, entry, tx, seen_jobs_v2, run_history_v2>>

\* line 178 raises.
CliScoreError(r) ==
    /\ entry = "cli" /\ pc[r] = "score"
    /\ CliExcept(r, [run[r] EXCEPT !.scored = TRUE], "ScoringError")
    /\ UNCHANGED <<call, entry, tx, seen_jobs_v2, run_history_v2, seen_jobs>>

\* lines 176-192: score, add every new listing, record at once without matches.
CliScore(r) ==
    /\ entry = "cli" /\ pc[r] = "score"
    /\ \E ai \in AiInputs(run[r].new_jobs, run[r].config) :
        LET loc == run[r]
            kw == KeywordScores(loc.new_jobs)
            scored == ScoreJobs(loc.new_jobs, kw, ai, loc.config)
            matched == score_and_filter_jobs(loc.new_jobs, kw, ai, loc.config)
        IN  /\ seen_jobs' = AddJobs(seen_jobs, scored, r)
            /\ run' = [run EXCEPT ![r] = [loc EXCEPT !.scored = TRUE, !.new_jobs = scored,
                                                     !.matched_jobs = matched]]
            /\ IF matched = <<>>
               THEN /\ run_history' = Append(run_history,
                                             RunRow(r, Len(loc.all_jobs), Len(scored), 0, FALSE, NULL))
                    /\ pc' = [pc EXCEPT ![r] = "done"]
               ELSE /\ UNCHANGED run_history
                    /\ pc' = [pc EXCEPT ![r] = "notify"]
    /\ UNCHANGED <<call, entry, tx, seen_jobs_v2, run_history_v2>>

\* line 205 raises while rendering.
CliRenderError(r) ==
    /\ entry = "cli" /\ pc[r] = "notify" /\ ~run[r].dry_run
    /\ CliExcept(r, run[r], "RenderError")
    /\ UNCHANGED <<call, entry, tx, seen_jobs_v2, run_history_v2, seen_jobs>>

\* lines 194-222: dry run, or send and mark; then record_run.
CliNotify(r) ==
    /\ entry = "cli" /\ pc[r] = "notify"
    /\ \E smtp_ok \in BOOLEAN :
        LET loc == run[r]
            matched_ids == JobIdsOf(loc.matched_jobs)
            email_sent == IF loc.dry_run THEN FALSE ELSE send_email(loc.config, smtp_ok)
        IN  /\ run' = [run EXCEPT ![r] =
                          [loc EXCEPT !.sends = IF loc.dry_run THEN 0 ELSE 1,
                                      !.mailed = IF loc.dry_run THEN {} ELSE matched_ids,
                                      !.email_sent = email_sent,
                                      !.notified = IF email_sent THEN matched_ids ELSE {}]]
            /\ seen_jobs' = IF email_sent THEN mark_jobs_sent(seen_jobs, matched_ids, r)
                            ELSE seen_jobs
            /\ run_history' = Append(run_history,
                                     RunRow(r, Len(loc.all_jobs), Len(loc.new_jobs),
                                            Len(loc.matched_jobs), email_sent, NULL))
    /\ pc' = [pc EXCEPT ![r] = "done"]
    /\ UNCHANGED <<call, entry, tx, seen_jobs_v2, run_history_v2>>

CliNext ==
    \E r \in Runs :
        \/ CliBeginProfileError(r)
        \/ CliBegin(r)
        \/ CliDedup(r)
        \/ CliScoreError(r)
        \/ CliScore(r)
        \/ CliRenderError(r)
        \/ CliNotify(r)

Next == WebNext \/ CliNext

Spec == Init /\ [][Next]_vars

\* ------------------------------------------------------------ process crash
\* The process (or thread) executing invocation r dies between two steps:
\* the open SQLAlchemy transaction is never committed and is lost; whatever
\* sqlite already committed statement by statement (CLI) stays.
Crash(r) ==
    /\ pc[r] \notin {"idle", "done", "crashed"}
    /\ pc' = [pc EXCEPT ![r] = "crashed"]
    /\ tx' = [tx EXCEPT ![r] = Session]
    /\ UNCHANGED <<call, entry, run, seen_jobs_v2, run_history_v2, seen_jobs, run_history>>

CrashNext == \E r \in Runs : Crash(r)

NextCrash == WebNext \/ CliNext \/ CrashNext

SpecCrash == Init /\ [][NextCrash]_vars

\* ------------------------------------------------- main.fetch_all_jobs loop
\* Number of search titles in config.search.job_titles.
MaxTitles == 2

\* The store and the invocations stay as constructed while a call is followed.
PipelineIdle ==
    /\ entry = "cli"
    /\ pc = [r \in Runs |-> "idle"]
    /\ run = [r \in Runs |-> RunLocals]
    /\ tx = [r \in Runs |-> Session]
    /\ seen_jobs_v2 = <<>> /\ run_history_v2 = <<>>
    /\ seen_jobs = <<>> /\ run_history = <<>>

\* One entry of the log of source calls.
SourceCall(title, source, outcome) ==
    [title |-> title, source |-> source, raises |-> outcome.raises, jobs |-> outcome.jobs]

\* fetch_all_jobs is entered with n search titles configured.
InitFetch ==
    /\ PipelineIdle
    /\ \E n \in 0 .. MaxTitles :
          call = [fn |-> "fetch_all_jobs", titles |-> n, title |-> 1,
                  all_jobs |-> <<>>, log |-> <<>>, returned |-> FALSE]

\* lines 63-103: one iteration of `for title in config.search.job_titles`.
FetchTitle ==
    /\ call.fn = "fetch_all_jobs" /\ ~call.returned /\ call.title <= call.titles
    /\ \E serp \in SerpapiOutcomes, indeed \in IndeedOutcomes, linkedin \in LinkedinOutcomes :
          call' = [call EXCEPT
                      !.all_jobs = call.all_jobs \o fetch_all_jobs(serp, indeed, linkedin),
                      !.log = call.log \o <<SourceCall(call.title, "serpapi", serp),
                                            SourceCall(call.title, "indeed", indeed),
                                            SourceCall(call.title, "linkedin", linkedin)>>,
                      !.title = call.title + 1]
    /\ UNCHANGED <<entry, pc, run, tx, seen_jobs_v2, run_history_v2, seen_jobs, run_history>>

\* lines 105-106: the loop is over, all_jobs is returned.
FetchReturn ==
    /\ call.fn = "fetch_all_jobs" /\ ~call.returned /\ call.title > call.titles
    /\ call' = [call EXCEPT !.returned = TRUE]
    /\ UNCHANGED <<entry, pc, run, tx, seen_jobs_v2, run_history_v2, seen_jobs, run_history>>

NextFetch == FetchTitle \/ FetchReturn

SpecFetch == InitFetch /\ [][NextFetch]_vars

\* ------------------------------------- matcher.score_and_filter_jobs loop
\* Longest list of new listings handed to score_and_filter_jobs.
MaxJobs == 2

\* A listing together with what the text helpers extract from it.
Posting(url, title_words, skills, keywords, has_years, years) ==
    [title_words |-> title_words, skills |-> skills, keywords |-> keywords,
     has_years |-> has_years, years |-> years]
        @@ JobListing(<<"D", "e", "v">>, <<"A", "c">>, url, "serpapi")

P1 == Posting(<<"u", "1">>, <<"backend", "dev">>, {"python"}, {"api"}, TRUE, 5)
P2 == Posting(<<"u", "2">>, <<"dev">>, {"python", "sql", "go"}, {}, FALSE, 0)
P3 == Posting(<<"u", "3">>, <<"ops">>, {}, {"cloud", "api"}, TRUE, 12)
\* the posting P1 again, under another url
P4 == Posting(<<"u", "4">>, <<"backend", "dev">>, {"python"}, {"api"}, TRUE, 5)
Postings == {P1, P2, P3, P4}

EmptyProfile == ProfileData({}, <<>>, {}, 0)
DevProfile == ProfileData({"python", "sql", "go"}, <<<<"backend", "dev">>>>, {"api", "cloud"}, 5)
Profiles == {EmptyProfile, DevProfile}

\* Lists of up to MaxJobs different postings.
JobLists ==
    UNION {{jobs \in [1 .. n -> Postings] : \A i, k \in 1 .. n : i # k => jobs[i] # jobs[k]} :
              n \in 0 .. MaxJobs}

\* The part of AppConfig the matcher reads.
MatcherConfig(threshold, use_ai, key, pre) ==
    [matching |-> [score_threshold |-> threshold, use_ai_matching |-> use_ai,
                   ai_pre_filter_threshold |-> pre],
     api_keys |-> [openai_api_key |-> key]]

MatcherConfigs ==
    {MatcherConfig(threshold, use_ai, key, pre) :
        threshold \in {300, 633}, use_ai \in BOOLEAN, key \in {"", "sk"}, pre \in {220, 600}}

\* line 20
UseAi(config) == config.matching.use_ai_matching /\ config.api_keys.openai_api_key # ""

\* The AI scorer was not called for a listing.
NotCalled == [raises |-> TRUE, score |-> 0, reason |-> <<>>]

\* score_and_filter_jobs is entered.
InitScore ==
    /\ PipelineIdle
    /\ \E profile \in Profiles, jobs \in JobLists, config \in MatcherConfigs :
          call = [fn |-> "score_and_filter_jobs", profile |-> profile, jobs |-> jobs,
                  config |-> config, i |-> 1, kw |-> <<>>, ai_called |-> <<>>,
                  response |-> <<>>, ai |-> <<>>, reason |-> <<>>,
                  returned |-> FALSE, result |-> <<>>]

\* What iteration call.i of the loop adds to the locals, given the answer of
\* the AI scorer (lines 31-49).
ScoredWith(called, resp) ==
    LET kw == score_job(call.profile, call.jobs[call.i])
        ai == IF called THEN score_job_with_ai(resp) ELSE NotCalled
    IN  [call EXCEPT !.kw = Append(call.kw, kw),
                     !.ai_called = Append(call.ai_called, called),
                     !.response = Append(call.response, resp),
                     !.ai = Append(call.ai, ai),
                     !.reason = Append(call.reason,
                                       FinalReason(kw.score, kw.reason, ai, UseAi(call.config),
                                                   call.config.matching.ai_pre_filter_threshold)),
                     !.i = call.i + 1]

\* lines 31-34, 47-49: a listing that is scored by keywords only.
ScoreByKeywords ==
    /\ call.fn = "score_and_filter_jobs" /\ ~call.returned /\ call.i <= Len(call.jobs)
    /\ ~CallsAi(score_job(call.profile, call.jobs[call.i]).score, UseAi(call.config),
                call.config.matching.ai_pre_filter_threshold)
    /\ call' = ScoredWith(FALSE, AiResponse("api_error", "missing", 0, FALSE))
    /\ UNCHANGED <<entry, pc, run, tx, seen_jobs_v2, run_history_v2, seen_jobs, run_history>>

\* lines 31-46: a listing for which the AI scorer is tried.
ScoreWithAi ==
    /\ call.fn = "score_and_filter_jobs" /\ ~call.returned /\ call.i <= Len(call.jobs)
    /\ CallsAi(score_job(call.profile, call.jobs[call.i]).score, UseAi(call.config),
               call.config.matching.ai_pre_filter_threshold)
    /\ \E resp \in AiResponses : call' = ScoredWith(TRUE, resp)
    /\ UNCHANGED <<entry, pc, run, tx, seen_jobs_v2, run_history_v2, seen_jobs, run_history>>

\* lines 51-62: the loop is over; the matched listings are sorted and returned.
ScoreReturn ==
    /\ call.fn = "score_and_filter_jobs" /\ ~call.returned /\ call.i > Len(call.jobs)
    /\ LET kw == [i \in DOMAIN call.kw |-> call.kw[i].score]
       IN  call' = [call EXCEPT
                       !.jobs = ScoreJobs(call.jobs, kw, call.ai, call.config),
                       !.result = score_and_filter_jobs(call.jobs, kw, call.ai, call.config),
                       !.returned = TRUE]
    /\ UNCHANGED <<entry, pc, run, tx, seen_jobs_v2, run_history_v2, seen_jobs, run_history>>

NextScore == ScoreByKeywords \/ ScoreWithAi \/ ScoreReturn

SpecScore == InitScore /\ [][NextScore]_vars

\* ------------------------------- web.settings.save_search / stored thresholds
\* Text of a number field of the settings form; NULL is a field that is absent.
FormTexts == {NULL, "", "0", "0.5", "1"}

\* float(text) of the texts above, in thousandths.
float(text) == CASE text = "0" -> 0 [] text = "0.5" -> 500 [] OTHER -> 1000

\* float(form.get(field, default) or default): an absent or empty field gives
\* the default, any other text (the text "0" included) is parsed.
FormFloat(text, default) == IF text \in {NULL, ""} THEN default ELSE float(text)

\* The settings row a new user has (column defaults of models.user_settings).
NewSettings ==
    UserSettings("me@x", "pw", "", "you@x", DefaultScoreThreshold, FALSE, NULL, DefaultAiPreFilter)

\* A user posts the search settings form; nothing has been built from it yet.
InitConfig ==
    /\ PipelineIdle
    /\ \E threshold \in FormTexts, pre \in FormTexts, use_ai \in BOOLEAN, key \in {NULL, "sk"} :
          call = [fn |-> "build_app_config_for_user", step |-> "form",
                  form |-> [score_threshold |-> threshold, ai_pre_filter_threshold |-> pre,
                            use_ai_matching |-> use_ai],
                  settings |-> [NewSettings EXCEPT !.openai_api_key = key],
                  config |-> build_app_config_for_user(NewSettings),
                  threshold |-> 0, ai_pre_filter |-> 0]

\* web/settings.py lines 49-52: the form is written to the UserSettings row.
SaveSearchSettings ==
    /\ call.fn = "build_app_config_for_user" /\ call.step = "form"
    /\ call' = [call EXCEPT
                   !.settings.score_threshold =
                       FormFloat(call.form.score_threshold, DefaultScoreThreshold),
                   !.settings.use_ai_matching = call.form.use_ai_matching,
                   !.settings.ai_pre_filter_threshold =
                       FormFloat(call.form.ai_pre_filter_threshold, DefaultAiPreFilter),
                   !.step = "stored"]
    /\ UNCHANGED <<entry, pc, run, tx, seen_jobs_v2, run_history_v2, seen_jobs, run_history>>

\* pipeline.py line 109: a run builds its AppConfig from the stored row.
BuildConfig ==
    /\ call.fn = "build_app_config_for_user" /\ call.step = "stored"
    /\ call' = [call EXCEPT !.config = build_app_config_for_user(call.settings),
                            !.step = "built"]
    /\ UNCHANGED <<entry, pc, run, tx, seen_jobs_v2, run_history_v2, seen_jobs, run_history>>

\* matcher.py lines 20-22: the scoring step reads its thresholds.
ReadThresholds ==
    /\ call.fn = "build_app_config_for_user" /\ call.step = "built"
    /\ call' = [call EXCEPT !.threshold = call.config.matching.score_threshold,
                            !.ai_pre_filter = call.config.matching.ai_pre_filter_threshold,
                            !.step = "scoring"]
    /\ UNCHANGED <<entry, pc, run, tx, seen_jobs_v2, run_history_v2, seen_jobs, run_history>>

NextConfig == SaveSearchSettings \/ BuildConfig \/ ReadThresholds

SpecConfig == InitConfig /\ [][NextConfig]_vars

\* ------------------------------------------------- JobListing.job_id reads
\* Field texts of the listings whose identity is read: letter case, padding
\* and the character "|" occur in them.
IdTitles == {<<"D", "e", "v">>, <<" ", "d", "E", "V">>, <<"D", "e", "v", "|", "A", "c">>,
             <<"O", "p", "s">>}
IdCompanies == {<<"A", "c">>, <<"A", "C", " ">>, <<"A", "c", "|", "x">>, <<"x">>}
IdUrls == {<<"u", "1">>, <<"U", "1">>, <<"u", "2">>}

\* Number of times the property job_id is read on one listing.
MaxReads == 2

\* Two listings are constructed; job_id has not been read yet.
InitIdentity ==
    /\ PipelineIdle
    /\ \E t1 \in IdTitles, c1 \in IdCompanies, u1 \in IdUrls,
          t2 \in IdTitles, c2 \in IdCompanies, u2 \in IdUrls,
          s2 \in {"serpapi", "indeed"}, score \in {0, 500} :
          call = [fn |-> "job_id",
                  jobs |-> <<JobListing(t1, c1, u1, "serpapi"),
                             [JobListing(t2, c2, u2, s2) EXCEPT !.match_score = score]>>,
                  ids |-> <<<<>>, <<>>>>]

\* jobs/models.py lines 27-31: one read of the property on listing i.
ReadJobId(i) ==
    /\ call.fn = "job_id" /\ Len(call.ids[i]) < MaxReads
    /\ call' = [call EXCEPT !.ids[i] = Append(call.ids[i], job_id(call.jobs[i]))]
    /\ UNCHANGED <<entry, pc, run, tx, seen_jobs_v2, run_history_v2, seen_jobs, run_history>>

NextIdentity == \E i \in 1 .. 2 : ReadJobId(i)

SpecIdentity == InitIdentity /\ [][NextIdentity]_vars

\* ------------------------------------------- JobDatabase, called directly
\* Number of calls made on one JobDatabase.
MaxOps == 3

\* A new database file is opened (lines 17-59); the clock reads 1.
InitDatabase ==
    /\ PipelineIdle
    /\ call = [fn |-> "JobDatabase", now |-> 1, op |-> "open", job |-> J1,
               id |-> job_id(J1), before |-> <<>>, added |-> {}, result |-> FALSE]

\* The log of a call: its name, its argument and the table it found.
Called(op, job, id, result) ==
    [call EXCEPT !.now = call.now + 1, !.op = op, !.job = job, !.id = id,
                 !.before = seen_jobs, !.result = result]

\* lines 85-97
DbAddJob ==
    /\ call.fn = "JobDatabase" /\ call.now <= MaxOps
    /\ \E j \in Catalogue, score \in {0, 500} :
        LET job == [j EXCEPT !.match_score = score]
        IN  /\ seen_jobs' = add_job(seen_jobs, job, call.now)
            /\ call' = [Called("add_job", job, job_id(job), FALSE)
                            EXCEPT !.added = call.added \cup {job_id(job)}]
    /\ UNCHANGED <<entry, pc, run, tx, seen_jobs_v2, run_history_v2, run_history>>

\* lines 61-66
DbIsJobSeen ==
    /\ call.fn = "JobDatabase" /\ call.now <= MaxOps
    /\ \E id \in JobIds :
          call' = Called("is_job_seen", call.job, id, is_job_seen(seen_jobs, id))
    /\ UNCHANGED <<entry, pc, run, tx, seen_jobs_v2, run_history_v2, seen_jobs, run_history>>

\* lines 68-83
DbFilterNewJobs ==
    /\ call.fn = "JobDatabase" /\ call.now <= MaxOps
    /\ \E j \in Catalogue :
        /\ seen_jobs' = TouchSeen(seen_jobs, <<j>>, call.now)
        /\ call' = Called("filter_new_jobs", j, job_id(j),
                          filter_new_jobs(seen_jobs, <<j>>) = <<>>)
    /\ UNCHANGED <<entry, pc, run, tx, seen_jobs_v2, run_history_v2, run_history>>

\* lines 99-107
DbMarkJobsSent ==
    /\ call.fn = "JobDatabase" /\ call.now <= MaxOps
    /\ \E id \in JobIds :
        /\ seen_jobs' = mark_jobs_sent(seen_jobs, {id}, call.now)
        /\ call' = Called("mark_jobs_sent", call.job, id, FALSE)
    /\ UNCHANGED <<entry, pc, run, tx, seen_jobs_v2, run_history_v2, run_history>>

NextDatabase == DbAddJob \/ DbIsJobSeen \/ DbFilterNewJobs \/ DbMarkJobsSent

SpecDatabase == InitDatabase /\ [][NextDatabase]_vars

\* --------------------------------------------- scheduler (per-user cron jobs)
\* int(text) of the number texts the schedule form can carry.
int(text) == CASE text = "0" -> 0 [] text = "23" -> 23 [] OTHER -> 59

\* int(form.get(field, default) or default)
FormInt(text, default) == IF text \in {NULL, ""} THEN default ELSE int(text)

\* Python's `x or default` on a string column.
OrText(x, default) == IF x \in {NULL, ""} THEN default ELSE x

\* The schedule columns of a UserSettings row, with their column defaults.
ScheduleSettings(enabled, frequency, day_of_week, day_of_month, hour, minute, timezone) ==
    [schedule_enabled |-> enabled, schedule_frequency |-> frequency,
     schedule_day_of_week |-> day_of_week, schedule_day_of_month |-> day_of_month,
     schedule_hour |-> hour, schedule_minute |-> minute, schedule_timezone |-> timezone]

NewSchedule == ScheduleSettings(FALSE, "weekly", "mon", 1, 9, 0, "America/New_York")

\* What a user can post to /schedule.
ScheduleForms ==
    [schedule_enabled : BOOLEAN, schedule_frequency : {"daily", "weekly", "monthly"},
     schedule_hour : {"", "0", "23"}, schedule_minute : {"0", "59"},
     schedule_timezone : {"UTC"}]

\* web/schedule.py lines 41-47: the row after the form is written to it.
StoredSchedule(form) ==
    ScheduleSettings(form.schedule_enabled, form.schedule_frequency, "mon", 1,
                     FormInt(form.schedule_hour, 9), FormInt(form.schedule_minute, 0),
                     form.schedule_timezone)

\* scheduler._job_id
_job_id(user_id) == <<"pipeline_user_", user_id>>

\* scheduler.py lines 77-93: the CronTrigger built from the settings; "*" and
\* 0 stand for a field that is not passed.
CronTrigger(settings) ==
    LET freq == OrText(settings.schedule_frequency, "weekly")
    IN  [hour |-> OrDefault(settings.schedule_hour, 9),
         minute |-> OrDefault(settings.schedule_minute, 0),
         timezone |-> OrText(settings.schedule_timezone, "America/New_York"),
         day_of_week |-> IF freq = "weekly" THEN OrText(settings.schedule_day_of_week, "mon")
                         ELSE "*",
         day |-> IF freq = "monthly" THEN OrDefault(settings.schedule_day_of_month, 1) ELSE 0]

\* Variant of schedule_user_pipeline: a disabled schedule leaves the job store
\* as it is.
ScheduleKeepsDisabled(jobs, user_id, settings) ==
    IF ~settings.schedule_enabled THEN jobs
    ELSE {j \in jobs : j.id # _job_id(user_id)}
            \cup {[id |-> _job_id(user_id), args |-> user_id, trigger |-> CronTrigger(settings)]}

\* scheduler.schedule_user_pipeline: the job store after the call.  The job
\* of the user is removed (lines 69-72); add_job(replace_existing=True)
\* replaces a job with the same id (lines 95-104).
schedule_user_pipeline(jobs, user_id, settings) ==
    LET removed == {j \in jobs : j.id # _job_id(user_id)}
    IN  IF ~settings.schedule_enabled THEN removed
        ELSE {j \in removed : j.id # _job_id(user_id)}
                \cup {[id |-> _job_id(user_id), args |-> user_id,
                       trigger |-> CronTrigger(settings)]}

\* The process starts with the stored rows of the users; no job is registered.
InitScheduler ==
    /\ PipelineIdle
    /\ call = [fn |-> "scheduler", op |-> "init", user |-> 1,
               settings |-> [u \in Users |-> NewSchedule],
               jobs |-> {}, before |-> {},
               last |-> [u \in Users |-> [called |-> FALSE, enabled |-> FALSE]]]

\* web/schedule.py lines 32-52: update_schedule of user u.
UpdateSchedule(u) ==
    /\ call.fn = "scheduler"
    /\ \E form \in ScheduleForms :
        LET settings == StoredSchedule(form)
        IN  call' = [call EXCEPT
                        !.op = "schedule_user_pipeline", !.user = u,
                        !.settings[u] = settings,
                        !.before = call.jobs,
                        !.jobs = schedule_user_pipeline(call.jobs, u, settings),
                        !.last[u] = [called |-> TRUE, enabled |-> settings.schedule_enabled]]
    /\ UNCHANGED <<entry, pc, run, tx, seen_jobs_v2, run_history_v2, seen_jobs, run_history>>

\* The job store after the startup loop over the rows with schedule_enabled.
RECURSIVE RegisterActive(_, _, _)
RegisterActive(jobs, users, settings) ==
    IF users = {} THEN jobs
    ELSE LET u == CHOOSE v \in users : TRUE
         IN  RegisterActive(schedule_user_pipeline(jobs, u, settings[u]), users \ {u}, settings)

\* web/app.py lines 53-68: the process is restarted; lifespan registers the
\* schedules of the rows that are enabled.
Lifespan ==
    /\ call.fn = "scheduler"
    /\ LET active == {u \in Users : call.settings[u].schedule_enabled}
       IN  call' = [call EXCEPT
                       !.op = "lifespan", !.before = {},
                       !.jobs = RegisterActive({}, active, call.settings),
                       !.last = [u \in Users |->
                                    [called |-> u \in active, enabled |-> u \in active]]]
    /\ UNCHANGED <<entry, pc, run, tx, seen_jobs_v2, run_history_v2, seen_jobs, run_history>>

NextScheduler == (\E u \in Users : UpdateSchedule(u)) \/ Lifespan

SpecScheduler == InitScheduler /\ [][NextScheduler]_vars

\* ================================================================== claims
\* The seen store and the run records of whichever entry point is deployed;
\* the CLI store has a single, implicit user, written 0 here.
SeenTable ==
    IF entry = "web" THEN seen_jobs_v2
    ELSE [k \in DOMAIN seen_jobs |-> [user_id |-> 0] @@ seen_jobs[k]]

RunTable ==
    IF entry = "web" THEN run_history_v2
    ELSE [k \in DOMAIN run_history |-> [user_id |-> 0] @@ run_history[k]]

Ended(r) == pc[r] = "done"
Records(r) == {k \in DOMAIN RunTable : RunTable[k].run = r}
SeenRowsOf(u, id) == {k \in DOMAIN SeenTable : SeenTable[k].user_id = u /\ SeenTable[k].job_id = id}
IsSeen(u, id) == SeenRowsOf(u, id) # {}
\* Invocation r wrote to the seen store (its number is its timestamp).
TouchedBy(r) ==
    \E k \in DOMAIN SeenTable :
        r \in {SeenTable[k].first_seen_at, SeenTable[k].last_seen_at, SeenTable[k].sent_at}
\* The notification transport of run_pipeline_for_user is configured.
TransportConfigured(r) ==
    /\ run[r].config.email.sender_email # ""
    /\ run[r].resend_key # "" \/ run[r].config.email.sender_password # ""
    /\ run[r].config.email.recipient_email # ""
SendFailed(r) == run[r].sends = 1 /\ ~run[r].email_sent
SameUser(r1, r2) == run[r1].user_id = run[r2].user_id
\* Identities of the listings of r that reached the threshold / did not.
MatchedIds(r) ==
    {job_id(run[r].new_jobs[i]) : i \in {k \in DOMAIN run[r].new_jobs :
        run[r].new_jobs[k].match_score >= run[r].config.matching.score_threshold}}
UnmatchedIds(r) ==
    {job_id(run[r].new_jobs[i]) : i \in {k \in DOMAIN run[r].new_jobs :
        run[r].new_jobs[k].match_score < run[r].config.matching.score_threshold}}

\* C1: every invocation of the orchestrator that has terminated has written
\* exactly one RunRecord, whatever its outcome.
C1_ExactlyOneRunRecord == \A r \in Runs : Ended(r) => Cardinality(Records(r)) = 1

\* C2: the seen store never holds two rows for the same (user, identity).
C2_AtMostOneSeenPerIdentity ==
    \A i, k \in DOMAIN SeenTable :
        i # k => ~(SeenTable[i].user_id = SeenTable[k].user_id
                   /\ SeenTable[i].job_id = SeenTable[k].job_id)

\* Two overlapping runs of one user both classified the same identity as new,
\* both have ended, and the identity is in the store.
C2_Witness ==
    \E r1, r2 \in Runs :
        /\ r1 # r2 /\ Ended(r1) /\ Ended(r2) /\ SameUser(r1, r2)
        /\ r1 \notin run[r2].after /\ r2 \notin run[r1].after
        /\ \E id \in JobIdsOf(run[r1].new_jobs) \cap JobIdsOf(run[r2].new_jobs) :
              IsSeen(run[r1].user_id, id)

\* C3: an identity is returned as new exactly once: once in the new set of the
\* first run that observes it, and never by a later run of the same user that
\* follows a run which persisted it.
C3_NewExactlyOnce ==
    \A r \in Runs :
        /\ \A i, k \in DOMAIN run[r].new_jobs :
              i # k => job_id(run[r].new_jobs[i]) # job_id(run[r].new_jobs[k])
        /\ \A r0 \in run[r].after :
              SameUser(r0, r) /\ run[r0].error = NULL =>
                  JobIdsOf(run[r0].new_jobs) \cap JobIdsOf(run[r].new_jobs) = {}

\* C4: a run that scored its new listings has persisted every one of them when
\* it ends, and no later run of the user passes an unmatched one to scoring.
C4_NewListingsPersisted ==
    \A r \in Runs :
        Ended(r) /\ run[r].scored /\ run[r].error # "ScoringError" =>
            /\ \A id \in JobIdsOf(run[r].new_jobs) : IsSeen(run[r].user_id, id)
            /\ \A r2 \in Runs :
                  r \in run[r2].after /\ SameUser(r, r2) /\ run[r2].scored =>
                      UnmatchedIds(r) \cap JobIdsOf(run[r2].new_jobs) = {}

\* C5: a seen row has a sent_at exactly when some run delivered a notification
\* that contained the listing; a failed, skipped or dry-run send never sets it.
C5_SentAtIffNotified ==
    /\ \A k \in DOMAIN SeenTable :
          SeenTable[k].sent_at # NEVER =>
              \E r \in Runs : /\ run[r].user_id = SeenTable[k].user_id
                              /\ run[r].email_sent
                              /\ SeenTable[k].job_id \in run[r].notified
                              /\ SeenTable[k].sent_at = r
    /\ \A r \in Runs :
          Ended(r) => \A id \in run[r].notified :
              /\ IsSeen(run[r].user_id, id)
              /\ \A k \in SeenRowsOf(run[r].user_id, id) : SeenTable[k].sent_at # NEVER

\* A delivered notification has marked its row, and another run whose send
\* failed for a matched listing has ended.
C5_Witness ==
    /\ \E k \in DOMAIN SeenTable : SeenTable[k].sent_at # NEVER
    /\ \E r \in Runs : Ended(r) /\ SendFailed(r) /\ run[r].mailed # {}

\* C6 as stated: a web run sends once when the matched set is non-empty and
\* the transport is configured, and not at all otherwise.
C6_SendOnlyWithMatches ==
    entry = "web" =>
        \A r \in Runs : Ended(r) =>
            run[r].sends = IF run[r].matched_jobs # <<>> /\ TransportConfigured(r) THEN 1 ELSE 0

\* C6 amended: a web run sends exactly once when the transport is configured
\* and the run reaches the send (profile and settings loaded, no exception
\* before it), with or without matches, and not at all otherwise; the email
\* carries exactly the matched listings left by the (title, company) pass.
C6_SendOncePerConfiguredRun ==
    entry = "web" =>
        \A r \in Runs :
            /\ run[r].sends <= 1
            /\ run[r].mailed = IF run[r].sends = 1 THEN JobIdsOf(run[r].matched_jobs) ELSE {}
            /\ Ended(r) =>
                  run[r].sends = IF run[r].loaded /\ run[r].error = NULL /\ TransportConfigured(r)
                                 THEN 1 ELSE 0

\* A web run with nothing matched has sent its one (summary) email.
C6_Witness ==
    /\ entry = "web"
    /\ \E r \in Runs : Ended(r) /\ run[r].sends = 1 /\ run[r].matched_jobs = <<>>
    /\ \E r \in Runs : Ended(r) /\ run[r].sends = 1 /\ run[r].matched_jobs # <<>>

\* C7: a run whose send failed has ended with a RunRecord that has the sent
\* flag false and an error string, and every listing it persisted is seen.
C7_SendFailureRecorded ==
    \A r \in Runs :
        Ended(r) /\ SendFailed(r) =>
            /\ \E k \in Records(r) :
                  ~RunTable[k].email_sent /\ RunTable[k].error_message # NULL
            /\ \A id \in JobIdsOf(run[r].new_jobs) : IsSeen(run[r].user_id, id)

C9_InitFailureRecorded ==
    \A r \in Runs :
        Ended(r) /\ ~run[r].loaded =>
            /\ \E k \in Records(r) : RunTable[k].error_message # NULL
            /\ ~run[r].fetched
            /\ ~TouchedBy(r)

\* A run that loaded its profile, fetched nothing and has ended.
FetchedNothing(r) == Ended(r) /\ run[r].loaded /\ run[r].error = NULL /\ run[r].all_jobs = <<>>

\* C10 as stated: a run that fetched nothing has a RunRecord with zero counts
\* and a null error message, and left the seen store unchanged.
C10_ZeroFetchNoError ==
    \A r \in Runs :
        FetchedNothing(r) =>
            /\ \E k \in Records(r) :
                  /\ RunTable[k].jobs_fetched = 0 /\ RunTable[k].new_jobs_found = 0
                  /\ RunTable[k].jobs_matched = 0
                  /\ RunTable[k].error_message = NULL
            /\ ~TouchedBy(r)

\* C10 amended: a run that fetched nothing has exactly one RunRecord, with zero
\* counts, and left the seen store unchanged; the error message is null in the
\* CLI, and in the web path it is null exactly when the no-matches summary was
\* delivered (otherwise it holds the transport error).
C10_ZeroFetchRecorded ==
    \A r \in Runs :
        FetchedNothing(r) =>
            /\ Cardinality(Records(r)) = 1
            /\ \A k \in Records(r) :
                  /\ RunTable[k].jobs_fetched = 0 /\ RunTable[k].new_jobs_found = 0
                  /\ RunTable[k].jobs_matched = 0
                  /\ (RunTable[k].error_message = NULL) <=>
                        (entry = "cli" \/ (TransportConfigured(r) /\ RunTable[k].email_sent))
            /\ ~TouchedBy(r)

\* Web runs that fetched nothing have ended, one with and one without an
\* error message, while the store holds rows of an earlier run.
C10_Witness ==
    /\ \E r \in Runs : FetchedNothing(r) /\ \E k \in Records(r) : RunTable[k].error_message # NULL
    /\ \E r \in Runs : Ended(r) /\ run[r].all_jobs # <<>>

\* Invocation r has started and has not terminated.
InProgress(r) == pc[r] \notin {"idle", "done", "crashed"}

\* C11: a run that loaded its profile and configuration and then hit an
\* unexpected failure (scoring, flush of the seen rows, rendering) has ended
\* with a committed RunRecord whose error message describes that failure.
C11_FailureRecorded ==
    \A r \in Runs :
        Ended(r) /\ run[r].loaded /\ run[r].error # NULL =>
            \E k \in Records(r) : RunTable[k].error_message = run[r].error

\* C12: no two invocations of run_pipeline_for_user for the same user are in
\* progress at the same time.
C12_OneRunPerUser ==
    entry = "web" =>
        \A r1, r2 \in Runs :
            r1 # r2 /\ InProgress(r1) /\ InProgress(r2) => ~SameUser(r1, r2)

C14_SeenRowsWithRunRecord ==
    \A r \in Runs :
        pc[r] \in {"done", "crashed"} /\ TouchedBy(r) => Records(r) # {}

\* Position of a step in the order Init/Fetching, Deduping, Scoring/Persisting,
\* Notifying, Recording, Done.
StepRank(p) ==
    CASE p = "idle" -> 0
      [] p = "dedup" -> 1
      [] p = "score" -> 2
      [] p = "notify" -> 3
      [] p = "record" -> 4
      [] OTHER -> 5

\* The (identity, score) pairs invocation r has handed to the seen store: rows
\* pending in its session or rows of the store first seen at its timestamp.
PersistedBy(r) ==
    {<<tx[r].new[k].job_id, tx[r].new[k].match_score>> : k \in DOMAIN tx[r].new}
        \cup {<<SeenTable[k].job_id, SeenTable[k].match_score>> :
                 k \in {i \in DOMAIN SeenTable : SeenTable[i].first_seen_at = r}}

ScoredPairs(r) ==
    {<<job_id(run[r].new_jobs[i]), run[r].new_jobs[i].match_score>> : i \in DOMAIN run[r].new_jobs}

\* C16: the steps of a run only move forward through fetch, dedup, score and
\* persist, notify, record: sources are called in the first step only, the new
\* set is fixed by dedup, a listing is persisted only with the score it was
\* given, a send is attempted only once every new listing is persisted, and
\* the RunRecord is written by the step that ends the run, after the send.
C16_StepOrder ==
    [][\A r \in Runs :
          /\ StepRank(pc'[r]) >= StepRank(pc[r])
          /\ (run'[r].fetched # run[r].fetched \/ run'[r].all_jobs # run[r].all_jobs)
                => pc[r] = "idle"
          /\ JobIdsOf(run'[r].new_jobs) # JobIdsOf(run[r].new_jobs) => pc[r] = "dedup"
          /\ run'[r].scored # run[r].scored => pc[r] = "score"
          /\ PersistedBy(r)' # PersistedBy(r) =>
                pc[r] = "score" /\ run'[r].scored /\ PersistedBy(r)' \subseteq ScoredPairs(r)'
          /\ run'[r].sends # run[r].sends =>
                pc[r] = "notify" /\ ScoredPairs(r) \subseteq PersistedBy(r)
          /\ Records(r)' # Records(r) => pc'[r] = "done"
      ]_vars

\* A run went through every step: it scored matched and unmatched listings,
\* sent its notification and has written its RunRecord.
C16_Witness ==
    \E r \in Runs :
        /\ Ended(r) /\ run[r].fetched /\ run[r].scored /\ run[r].sends = 1
        /\ MatchedIds(r) # {} /\ UnmatchedIds(r) # {} /\ Records(r) # {}

\* The listings of the source calls of a log that did not fail, in call order.
RECURSIVE ReturnedBy(_)
ReturnedBy(log) ==
    IF log = <<>> THEN <<>>
    ELSE (IF Head(log).raises THEN <<>> ELSE Head(log).jobs) \o ReturnedBy(Tail(log))

\* C15: fetch_all_jobs always returns, and what it returns is the listings of
\* every source call that did not fail, over all search titles, concatenated
\* in call order without deduplication; three calls are made per title.
C15_FetchConcatenates ==
    call.fn = "fetch_all_jobs" =>
        /\ Len(call.log) = 3 * (call.title - 1)
        /\ call.all_jobs = ReturnedBy(call.log)
        /\ call.returned => call.title = call.titles + 1

\* fetch_all_jobs has returned after a source failed for the first title and
\* sources answered afterwards, and the result holds one identity twice.
C15_Witness ==
    /\ call.fn = "fetch_all_jobs" /\ call.returned /\ call.titles = MaxTitles
    /\ call.log[1].raises
    /\ \E k \in DOMAIN call.log : k > 1 /\ ~call.log[k].raises /\ call.log[k].jobs # <<>>
    /\ \E i, k \in DOMAIN call.all_jobs :
          i # k /\ job_id(call.all_jobs[i]) = job_id(call.all_jobs[k])

\* A call of score_and_filter_jobs has returned.
Scored == call.fn = "score_and_filter_jobs" /\ call.returned

\* The AI answer is a failure or malformed: an API error, text that is not
\* JSON, JSON that is not an object, or an object whose score is missing or
\* is not a number.
Malformed(resp) ==
    \/ resp.kind \in {"api_error", "text", "array"}
    \/ resp.kind = "object" /\ resp.score_kind \in {"missing", "null", "word", "true"}

\* C17: a listing for which the AI scorer raised or answered with malformed
\* data ends with exactly the keyword strategy's score and reason.
C17_AiFallback ==
    Scored =>
        \A i \in DOMAIN call.jobs :
            call.ai_called[i] /\ Malformed(call.response[i]) =>
                /\ call.jobs[i].match_score = call.kw[i].score
                /\ call.reason[i] = call.kw[i].reason

\* C18 as stated: the AI scorer is called for a listing only when AI matching
\* is enabled, a key is configured and the keyword score is strictly above the
\* pre-filter threshold; at or below it the keyword score is used.
C18_AiOnlyAbovePreFilter ==
    call.fn = "score_and_filter_jobs" =>
        \A i \in DOMAIN call.ai_called :
            /\ call.ai_called[i] =>
                  /\ call.config.matching.use_ai_matching
                  /\ call.config.api_keys.openai_api_key # ""
                  /\ call.kw[i].score > call.config.matching.ai_pre_filter_threshold
            /\ call.kw[i].score <= call.config.matching.ai_pre_filter_threshold =>
                  /\ ~call.ai_called[i]
                  /\ call.returned => call.jobs[i].match_score = call.kw[i].score

\* C18 amended: the AI scorer is called for a listing exactly when AI matching
\* is enabled, a key is configured and the keyword score is greater than or
\* equal to the pre-filter threshold; a listing it is not called for keeps the
\* keyword score and reason.
C18_AiFromPreFilter ==
    call.fn = "score_and_filter_jobs" =>
        \A i \in DOMAIN call.ai_called :
            /\ call.ai_called[i] <=>
                  /\ call.config.matching.use_ai_matching
                  /\ call.config.api_keys.openai_api_key # ""
                  /\ call.kw[i].score >= call.config.matching.ai_pre_filter_threshold
            /\ ~call.ai_called[i] /\ call.returned =>
                  /\ call.jobs[i].match_score = call.kw[i].score
                  /\ call.reason[i] = call.kw[i].reason

\* With AI matching on, a listing whose keyword score equals the pre-filter
\* threshold was sent to the AI scorer and a listing below it was not.
C18_Witness ==
    /\ Scored /\ UseAi(call.config)
    /\ \E i, k \in DOMAIN call.jobs :
          /\ call.ai_called[i]
          /\ call.kw[i].score = call.config.matching.ai_pre_filter_threshold
          /\ ~call.ai_called[k]
          /\ call.kw[k].score < call.config.matching.ai_pre_filter_threshold

\* The score the loop leaves on listing i, from what was logged for it.
LoggedScore(i) ==
    IF call.ai_called[i] /\ ~call.ai[i].raises THEN call.ai[i].score ELSE call.kw[i].score

\* Position of a listing in the input list (the postings of a list differ).
InputPosition(job) == CHOOSE i \in DOMAIN call.jobs : call.jobs[i] = job

\* C19: score_and_filter_jobs returns exactly the input listings whose final
\* score is at least the threshold, each once, by descending score, listings
\* of equal score in their input order.
C19_ThresholdFilterSorted ==
    Scored =>
        LET threshold == call.config.matching.score_threshold
            kept == {i \in DOMAIN call.jobs : LoggedScore(i) >= threshold}
        IN  /\ \A i \in DOMAIN call.jobs : call.jobs[i].match_score = LoggedScore(i)
            /\ Len(call.result) = Cardinality(kept)
            /\ {call.result[k] : k \in DOMAIN call.result} = {call.jobs[i] : i \in kept}
            /\ \A k1, k2 \in DOMAIN call.result :
                  k1 < k2 =>
                      /\ call.result[k1].match_score >= call.result[k2].match_score
                      /\ call.result[k1].match_score = call.result[k2].match_score =>
                            InputPosition(call.result[k1]) < InputPosition(call.result[k2])

\* Two listings were returned with the same score, which is exactly the
\* threshold.
C19_Witness ==
    /\ Scored /\ Len(call.result) = 2
    /\ call.result[1].match_score = call.result[2].match_score
    /\ call.result[1].match_score = call.config.matching.score_threshold

InUnit(f) == f.d > 0 /\ 0 <= f.n /\ f.n <= f.d

\* C20: every score is within 0.0 .. 1.0: the four keyword sub-scores, whose
\* weights add up to 1, the keyword total, the score taken from the AI scorer,
\* and the final score left on the listing.
C20_ScoreBounds ==
    call.fn = "score_and_filter_jobs" =>
        /\ WEIGHT_SKILLS + WEIGHT_TITLE + WEIGHT_KEYWORDS + WEIGHT_EXPERIENCE = 1000
        /\ \A i \in DOMAIN call.kw :
              LET job == call.jobs[i]
              IN  /\ InUnit(skills_score(call.profile, job))
                  /\ InUnit(title_score(call.profile.job_titles, job))
                  /\ InUnit(keywords_score(call.profile, job))
                  /\ InUnit(experience_score(call.profile, job))
                  /\ call.kw[i].score \in 0 .. 1000
                  /\ call.ai_called[i] /\ ~call.ai[i].raises => call.ai[i].score \in 0 .. 1000
                  /\ call.returned => job.match_score \in 0 .. 1000

\* The AI scorer answered 1.5 for one listing and -0.5 for another; they were
\* left with 1.0 and 0.0.
C20_Witness ==
    /\ Scored
    /\ \E i, k \in DOMAIN call.jobs :
          /\ call.ai_called[i] /\ call.response[i].x = 1500 /\ call.jobs[i].match_score = 1000
          /\ call.ai_called[k] /\ call.response[k].x < 0 /\ call.jobs[k].match_score = 0

\* C21: the thresholds the scoring step of run_pipeline_for_user applies are
\* the stored ones: once the scoring step has read its configuration, the
\* match threshold equals the stored score_threshold and the AI pre-filter
\* threshold equals the stored ai_pre_filter_threshold, for every stored
\* value in [0, 1], 0.0 included.
C21_StoredThresholdsApplied ==
    (call.fn = "build_app_config_for_user" /\ call.step = "scoring")
        => /\ call.settings.score_threshold \in 0 .. 1000
           /\ call.settings.ai_pre_filter_threshold \in 0 .. 1000
           /\ call.threshold = call.settings.score_threshold
           /\ call.ai_pre_filter = call.settings.ai_pre_filter_threshold

\* The lower-cased, trimmed (title, company, url) of a listing.
NormalizedTriple(job) ==
    <<Lower(Strip(job.title)), Lower(Strip(job.company)), Lower(Strip(job.url))>>

\* C22: job_id is a pure function of the normalized (title, company, url):
\* every read of job_id on one listing returns the same value, two listings
\* with equal normalized triples have the same identity whatever their source
\* or score, and two listings whose normalized triples differ have different
\* identities.
C22_IdentityOfNormalizedTriple ==
    call.fn = "job_id" =>
        /\ \A i \in 1 .. 2 : \A m, n \in DOMAIN call.ids[i] : call.ids[i][m] = call.ids[i][n]
        /\ \A m \in DOMAIN call.ids[1], n \in DOMAIN call.ids[2] :
              (call.ids[1][m] = call.ids[2][n])
                  <=> (NormalizedTriple(call.jobs[1]) = NormalizedTriple(call.jobs[2]))

\* Listing `job` is in the fetch result of an invocation of user u that ended.
FetchedBy(u, job) ==
    \E r \in Runs :
        /\ Ended(r) /\ run[r].user_id = u
        /\ \E i \in DOMAIN run[r].all_jobs : run[r].all_jobs[i] = job

\* Rows of user u that stand for listing a or listing b.
RowsFor(u, a, b) == SeenRowsOf(u, job_id(a)) \cup SeenRowsOf(u, job_id(b))

\* C23 as stated: two listings of different sources with the same normalized
\* title and company have the same identity and, once persisted for a user,
\* are one SeenListing row of that user.
C23_SamePairOneRow ==
    \A u \in Users \cup {0} : \A a, b \in Catalogue :
        (a.source # b.source /\ PairKey(a) = PairKey(b)
            /\ IsSeen(u, job_id(a)) /\ IsSeen(u, job_id(b)))
        => (job_id(a) = job_id(b) /\ Cardinality(RowsFor(u, a, b)) = 1)

\* C23, amended: two listings of different sources with the same normalized
\* title, company and url have the same identity and, once persisted for a
\* user, are one SeenListing row of that user.
C23_SameTripleOneRow ==
    \A u \in Users \cup {0} : \A a, b \in Catalogue :
        (a.source # b.source /\ NormalizedTriple(a) = NormalizedTriple(b))
        => /\ job_id(a) = job_id(b)
           /\ (IsSeen(u, job_id(a)) /\ IsSeen(u, job_id(b)))
                  => Cardinality(RowsFor(u, a, b)) = 1

\* A user fetched the posting from two sources (J1 from serpapi, J2 from
\* indeed) and the posting is in that user's seen store.
C23_Witness ==
    \E u \in Users \cup {0} :
        FetchedBy(u, J1) /\ FetchedBy(u, J2) /\ IsSeen(u, job_id(J1))

\* The listings of r that reached the threshold, before any collapsing.
AboveThreshold(r) ==
    SelectSeq(run[r].new_jobs,
              LAMBDA j : j.match_score >= run[r].config.matching.score_threshold)

\* Identities the run holds in its transaction or in the store.
HeldBy(r) ==
    IF entry = "web" THEN {tx[r].new[k].job_id : k \in DOMAIN tx[r].new}
    ELSE {seen_jobs[k].job_id : k \in DOMAIN seen_jobs}

\* The list of listings invocation r hands to the notification.
NotificationOf(r) == run[r].matched_jobs

\* C24: a notification never lists two listings with the same normalized
\* (title, company); of the listings of one pair that reached the threshold
\* the notification keeps one with the highest score; and the collapsing
\* drops no identity from what the run persists.
C24_NoRepeatedPairNotified ==
    \A r \in Runs :
        (run[r].scored /\ pc[r] \in {"notify", "record", "done"} /\ run[r].error = NULL)
        => /\ run[r].sends >= 1 =>
                 \A i, k \in DOMAIN NotificationOf(r) :
                     i # k => PairKey(NotificationOf(r)[i]) # PairKey(NotificationOf(r)[k])
           /\ \A i \in DOMAIN AboveThreshold(r) :
                 \E k \in DOMAIN NotificationOf(r) :
                     /\ PairKey(NotificationOf(r)[k]) = PairKey(AboveThreshold(r)[i])
                     /\ NotificationOf(r)[k].match_score >= AboveThreshold(r)[i].match_score
           /\ pc[r] \in {"notify", "record"} => JobIdsOf(run[r].new_jobs) \subseteq HeldBy(r)

\* Identities invocation r fetched and found in the seen store already.
KnownTo(r) == JobIdsOf(run[r].all_jobs) \ JobIdsOf(run[r].new_jobs)

\* C25: when a run fetches a listing whose identity is already in the user's
\* seen store, the row's last-seen timestamp becomes the time of that run (or
\* of a later run that fetched it again), and the run does not restamp its
\* first-seen timestamp.
C25_LastSeenUpdated ==
    \A r \in Runs :
        (Ended(r) /\ run[r].error = NULL) =>
            \A id \in KnownTo(r) : \A k \in SeenRowsOf(run[r].user_id, id) :
                /\ SeenTable[k].first_seen_at # r
                /\ SeenTable[k].first_seen_at < r => SeenTable[k].last_seen_at >= r

\* C26: add_job is an insert-if-absent: called for an identity that is in the
\* seen store it leaves the table, and so the row count and every field of
\* the existing row, as it was; and is_job_seen answers true for an identity
\* exactly when add_job has been called for it.
C26_AddJobIdempotent ==
    call.fn = "JobDatabase" =>
        /\ (call.op = "add_job" /\ is_job_seen(call.before, call.id)) => seen_jobs = call.before
        /\ call.op = "is_job_seen" => (call.result <=> call.id \in call.added)
        /\ \A id \in JobIds : is_job_seen(seen_jobs, id) <=> id \in call.added

\* add_job was called for an identity whose row was notified and carries
\* another score and an earlier first-seen time than the call would write.
C26_Witness ==
    /\ call.fn = "JobDatabase" /\ call.op = "add_job"
    /\ \E k \in DOMAIN call.before :
          /\ call.before[k].job_id = call.id
          /\ call.before[k].sent_at # NEVER
          /\ call.before[k].match_score # call.job.match_score
          /\ call.before[k].first_seen_at < call.now - 1

\* Jobs the scheduler holds for user u.
JobsOf(jobs, u) == {j \in jobs : j.id = _job_id(u)}

C28_TriggerAtStoredTime ==
    call.fn = "scheduler" =>
        \A u \in Users : \A j \in JobsOf(call.jobs, u) :
            (call.settings[u].schedule_hour \in 0 .. 23
                /\ call.settings[u].schedule_minute \in 0 .. 59)
            => /\ j.trigger.hour = call.settings[u].schedule_hour
               /\ j.trigger.minute = call.settings[u].schedule_minute

\* C29: every RunRecord, of either entry point, has counts ordered
\* 0 <= matched <= new <= fetched and never carries both the sent flag and an
\* error message.
C29_RecordCountsOrdered ==
    \A k \in DOMAIN RunTable :
        /\ 0 <= RunTable[k].jobs_matched
        /\ RunTable[k].jobs_matched <= RunTable[k].new_jobs_found
        /\ RunTable[k].new_jobs_found <= RunTable[k].jobs_fetched
        /\ ~(RunTable[k].email_sent /\ RunTable[k].error_message # NULL)

\* A record of a notified run that fetched more than it found new and found
\* more new than it matched, next to a record that carries an error.
C29_Witness ==
    /\ \E k \in DOMAIN RunTable :
          /\ RunTable[k].email_sent
          /\ 0 < RunTable[k].jobs_matched
          /\ RunTable[k].jobs_matched < RunTable[k].new_jobs_found
          /\ RunTable[k].new_jobs_found < RunTable[k].jobs_fetched
    /\ \E k \in DOMAIN RunTable : RunTable[k].error_message # NULL

\* r is a dry run of the CLI pipeline that has ended.
DryRun(r) == entry = "cli" /\ run[r].dry_run /\ Ended(r)

\* C30: a dry run of the CLI pipeline calls no transport, sets sent_at on no
\* row and records email_sent false; it stores every new listing as a normal
\* run does, so the listings it matched are in the seen store and in no later
\* run's notification.
C30_DryRunSilent ==
    \A r \in Runs :
        DryRun(r) =>
            /\ run[r].sends = 0 /\ run[r].mailed = {} /\ run[r].notified = {}
            /\ \A k \in DOMAIN seen_jobs : seen_jobs[k].sent_at # r
            /\ \A k \in Records(r) : ~RunTable[k].email_sent
            /\ (run[r].scored /\ run[r].error = NULL) =>
                  \A id \in JobIdsOf(run[r].new_jobs) : is_job_seen(seen_jobs, id)
            /\ \A r2 \in Runs :
                  r \in run[r2].after =>
                      /\ JobIdsOf(run[r].matched_jobs) \cap JobIdsOf(run[r2].matched_jobs) = {}
                      /\ JobIdsOf(run[r].matched_jobs) \cap run[r2].mailed = {}

\* A dry run matched a listing, and a later normal run fetched that listing
\* again and sent a notification.
C30_Witness ==
    \E r, r2 \in Runs :
        /\ DryRun(r) /\ run[r].matched_jobs # <<>>
        /\ r \in run[r2].after /\ Ended(r2) /\ ~run[r2].dry_run
        /\ JobIdsOf(run[r].matched_jobs) \cap JobIdsOf(run[r2].all_jobs) # {}
        /\ run[r2].sends = 1 /\ run[r2].email_sent

====
